---- MODULE Spec2Model ----
(***************************************************************************)
(* The research orchestration engine of 2_openai/deep_research_workflow:   *)
(* ResearchManager.run and the stages it drives (routing, planning, the    *)
(* concurrent search fan-out, the writer/evaluator revision loop and       *)
(* delivery), and the pure function enrich_query; the interactive session *)
(* of deep_research_interactive.py that collects the clarifications and    *)
(* starts the run; and the Account ledger of 3_crew/engineering_team.      *)
(*                                                                         *)
(* Text is modelled as a sequence of fragments (tokens): a literal of an   *)
(* f-string is one fragment, interpolation is concatenation (\o), and a   *)
(* user-typed answer is a sequence of one-character fragments, so that     *)
(* str.strip() and ', '.join() are computed and not assumed.               *)
(***************************************************************************)
EXTENDS Integers, Sequences, FiniteSets, TLC

VARIABLES
    pc,                 \* position of the workflow (or of the enrich_query harness)
    query,              \* run(query, ...)
    qa_pairs,           \* run(..., clarifying_answers, ...) / enrich_query(_, qa_pairs)
    route_override,     \* run(..., route_override)
    enriched_query,     \* local enriched_query of run / result of enrich_query
    route,              \* local route of run (a QueryRoute)
    planner_request,    \* history: the num_searches of every planning call
    planner_output,     \* history: the searches the planning capability returned
    search_plan,        \* local search_plan of run (WebSearchPlan.searches)
    tasks,              \* perform_searches: state of each created task
    search_raised,      \* history: the tasks whose search capability call raised
    completed_ok,       \* history: the tasks that returned a result, as they completed
    search_calls,       \* history: number of search capability calls made for each task
    printed,            \* history: the counter values print()ed by perform_searches
    classifier_output,  \* history: the QueryRoute the classifier returned last
    as_completed,       \* perform_searches: completed tasks not yet consumed by the loop
    results,            \* perform_searches: local results
    num_completed,      \* perform_searches: local num_completed
    search_results,     \* local search_results of run
    attempt,            \* write_report_with_evaluation: local attempt
    feedback,           \* write_report_with_evaluation: local feedback
    report,             \* write_report_with_evaluation: local report (a draft)
    returned_at,        \* which return statement of write_report_with_evaluation ran
    writer_inputs,      \* history: the (feedback, search_results) of every Writer call
    evaluator_inputs,   \* history: the draft given to every Evaluator call
    evaluation,         \* write_report_with_evaluation: local evaluation
    classifier_calls,   \* history: number of Runner.run(router_agent, ...) calls
    delivered,          \* history: the drafts handed to Runner.run(email_agent, ...)
    emitted,            \* the progress stream: what run() has yielded so far
    emitted_report,     \* the draft whose markdown_report was yielded last
    failure,            \* the call whose exception propagated out of run()
    balance,            \* Account.balance
    holdings,           \* Account.holdings: symbol -> quantity, for the keys present
    initial_deposit,    \* Account.initial_deposit
    transactions,       \* Account.transactions
    last_call,          \* the last Account method called, its arguments and outcome
    ui_pc,              \* interactive session: position of the handler in flight
    handler,            \* interactive session: arguments of the handler in flight
    route_radio,        \* value of the route_radio component
    qa_history_state,   \* value of gr.State qa_history_state
    query_state,        \* value of gr.State query_state
    route_mode_state,   \* value of gr.State route_mode_state
    answer_box,         \* value of the answer_box textbox
    conversation_display, \* what conversation_display shows
    visible,            \* visibility of answer_section, submit_btn and reset_btn
    research_run,       \* arguments of the last manager.run started by handle_answer
    clarifier_input,    \* history: the qa_history of the last generate_clarifying_question call
    answered,           \* history: the rounds of qa_history whose answer handle_answer stored
    second              \* a handle_answer invocation overlapping the one in flight

vars == <<pc, query, qa_pairs, route_override, enriched_query, route,
          planner_request, planner_output, search_plan, tasks, search_raised,
          completed_ok, search_calls, printed, classifier_output,
          as_completed, results,
          num_completed, search_results, attempt, feedback, report,
          returned_at, writer_inputs, evaluator_inputs, evaluation,
          classifier_calls,
          delivered, emitted, emitted_report, failure,
          balance, holdings, initial_deposit, transactions, last_call,
          ui_pc, handler, route_radio, qa_history_state, query_state,
          route_mode_state, answer_box, conversation_display, visible,
          research_run, clarifier_input, answered, second>>

---------------------------------------------------------------------------
(* Program constants *)

MAX_REVISION_ATTEMPTS == 2

(* Bounds of the model *)

MaxPlanLen == 3        \* longest plan the planning capability returns
MaxNumSearches == 3    \* largest num_searches the classifier returns
MaxIssues == 2         \* longest issues list of an evaluation
MaxPairs == 2          \* longest clarification list given to enrich_query
MaxAnswerLen == 2      \* longest answer, in characters

---------------------------------------------------------------------------
(* Values *)

NoneValue == "<None>"                 \* Python's None where a str is optional
Routes == {"quick", "deep", "technical", "comparative"}
Overrides == {NoneValue, "", "auto", "other"} \cup Routes
NoRoute == [route |-> NoneValue, reasoning |-> <<>>, num_searches |-> 0]
NoDraft == 0

RECURSIVE SeqsUpTo(_, _)
SeqsUpTo(S, n) ==
    IF n = 0 THEN {<<>>}
    ELSE LET shorter == SeqsUpTo(S, n - 1)
         IN  shorter \cup {Append(s, x) : s \in {t \in shorter : Len(t) = n - 1}, x \in S}

Whitespace == {" ", "\t", "\n"}
AnswerChars == {" ", "x"}
Answers == SeqsUpTo(AnswerChars, MaxAnswerLen)
Questions == {<<"Q1">>, <<"Q2">>}
QaPair == {<<q, a>> : q \in Questions, a \in Answers}
QaLists == SeqsUpTo(QaPair, MaxPairs)
Queries == {<<"q">>}

---------------------------------------------------------------------------
(* Pure functions of ResearchManager *)

\* str.strip(): the text without its leading and trailing whitespace
RECURSIVE lstrip(_)
lstrip(s) ==
    IF s # <<>> /\ Head(s) \in Whitespace THEN lstrip(Tail(s)) ELSE s

RECURSIVE rstrip(_)
rstrip(s) ==
    IF s # <<>> /\ s[Len(s)] \in Whitespace
    THEN rstrip(SubSeq(s, 1, Len(s) - 1))
    ELSE s

strip(s) == rstrip(lstrip(s))

\* Python truthiness of an optional str, and of a list or a text
TruthyStr(v) == v # NoneValue /\ v # ""

Truthy(v) == Len(v) > 0

\* enrich_query, the guard of its early return:
\* not qa_pairs or all(not answer.strip() for _, answer in qa_pairs)
NothingAnswered(pairs) ==
    ~Truthy(pairs) \/ \A i \in 1..Len(pairs) : ~Truthy(strip(pairs[i][2]))

\* enrich_query, the line appended for one pair: if answer.strip(): enriched += ...
\* (variant: the blank-answer test left out)
EnrichedLineUnfiltered(pair) ==
    <<"- ">> \o pair[1] \o <<"\n  Answer: ">> \o pair[2] \o <<"\n">>

EnrichedLine(pair) ==
    IF Truthy(strip(pair[2]))
    THEN <<"- ">> \o pair[1] \o <<"\n  Answer: ">> \o pair[2] \o <<"\n">>
    ELSE <<>>

\* enrich_query, its for loop over qa_pairs
RECURSIVE EnrichedLines(_)
EnrichedLines(pairs) ==
    IF pairs = <<>> THEN <<>>
    ELSE EnrichedLine(Head(pairs)) \o EnrichedLines(Tail(pairs))

enrich_query(original_query, pairs) ==
    IF NothingAnswered(pairs) THEN original_query
    ELSE <<"Original Query: ">> \o original_query
            \o <<"\n\nAdditional Context:\n">> \o EnrichedLines(pairs)

\* ', '.join(evaluation.issues)
RECURSIVE join(_, _)
join(sep, items) ==
    IF items = <<>> THEN <<>>
    ELSE IF Len(items) = 1 THEN <<items[1]>>
    ELSE <<items[1]>> \o sep \o join(sep, Tail(items))

\* the feedback prepared for the revision
\* (variant: ',' written for ', ')
BuildFeedbackNoSpace(verdict) ==
    <<"Issues: ">> \o join(<<",">>, verdict.issues)
        \o <<"\nSuggestions: ">> \o verdict.suggestions

BuildFeedback(verdict) ==
    <<"Issues: ">> \o join(<<", ">>, verdict.issues)
        \o <<"\nSuggestions: ">> \o verdict.suggestions

\* route_query: route_map.get(route_override, 5)
route_map_get(label) ==
    CASE label = "quick" -> 3
      [] label = "deep" -> 5
      [] label = "technical" -> 5
      [] label = "comparative" -> 6
      [] OTHER -> 5

\* route_query: the QueryRoute built for a manual override
\* (variant: the default count used for every label)
ManualRouteDefaultCount(label) ==
    [route |-> label,
     reasoning |-> <<"Manually selected ", label, " route">>,
     num_searches |-> 5]

ManualRoute(label) ==
    [route |-> label,
     reasoning |-> <<"Manually selected ", label, " route">>,
     num_searches |-> route_map_get(label)]

\* QueryRoute: pydantic validates route: Literal["quick", "deep", "technical",
\* "comparative"] when the model is constructed and raises ValidationError otherwise
QueryRouteValid(r) == r.route \in Routes

\* run: if route_override and route_override != "auto"
UsesManualRoute(override) == TruthyStr(override) /\ override # "auto"

\* write_report_with_evaluation: while attempt < MAX_REVISION_ATTEMPTS
\* (variant: one turn too few)
LoopContinuesOneShort(a) == a + 1 < MAX_REVISION_ATTEMPTS

LoopContinues(a) == a < MAX_REVISION_ATTEMPTS

\* write_report_with_evaluation:
\* if route.route == "quick" or attempt >= MAX_REVISION_ATTEMPTS
\* (variants: one of the two tests left out)
SkipsEvaluationOnLastOnly(r, a) == a >= MAX_REVISION_ATTEMPTS

SkipsEvaluationOnQuickOnly(r, a) == r.route = "quick"

SkipsEvaluation(r, a) == r.route = "quick" \/ a >= MAX_REVISION_ATTEMPTS

---------------------------------------------------------------------------
(* What the external capabilities may return *)

\* router_agent: any QueryRoute that passes validation; num_searches is any int
ClassifierOutputs ==
    [route : Routes, reasoning : {<<"classified">>},
     num_searches : (0 - 1)..MaxNumSearches]

\* planner_agent: a WebSearchPlan of any length; the items are named 1..n
PlannerOutputs == {[i \in 1..n |-> i] : n \in 0..MaxPlanLen}

\* evaluator_agent: any ReportEvaluation (score is only printed)
EvaluatorOutputs ==
    [is_acceptable : BOOLEAN,
     issues : SeqsUpTo({"A", "B"}, MaxIssues),
     suggestions : {<<>>, <<"C">>}]

NoEvaluation == [is_acceptable |-> FALSE, issues |-> <<"<none>">>, suggestions |-> <<>>]

\* run(): the clarifying answers a caller passes (None and [] are both falsy)
RunClarifications == {<<>>, << <<<<"Q1">>, <<"x">>>> >>}

---------------------------------------------------------------------------
(* ResearchManager.run *)

inputs == <<query, qa_pairs, route_override>>
searchVars == <<tasks, search_raised, completed_ok, search_calls, printed,
               as_completed, results, num_completed>>
loopVars == <<attempt, feedback, report, returned_at, evaluation>>
callVars == <<writer_inputs, evaluator_inputs, classifier_calls,
              classifier_output, delivered, planner_request, planner_output>>

acctVars == <<balance, holdings, initial_deposit, transactions, last_call>>
uiVars == <<ui_pc, handler, route_radio, qa_history_state, query_state,
            route_mode_state, answer_box, conversation_display, visible,
            research_run, clarifier_input, answered, second>>

\* Account.__init__
NoCall == [op |-> "__init__", symbol |-> "", number |-> 0, raised |-> NoneValue,
           returned |-> <<>>]

InitAccount ==
    /\ balance = 0
    /\ holdings = <<>>
    /\ initial_deposit = 0
    /\ transactions = <<>>
    /\ last_call = NoCall

\* the components and gr.State values as built by "with gr.Blocks() as ui"
NoHandler == [fn |-> "", query |-> <<>>, route_mode |-> ""]
Display(kind, n) == [kind |-> kind, n |-> n]
NoResearch == [query |-> <<>>, route_override |-> ""]
AllHidden == [answer_section |-> FALSE, submit_btn |-> FALSE, reset_btn |-> FALSE]
NoSecond == [pc |-> "none", query |-> <<>>, route_mode |-> ""]

InitUI ==
    /\ ui_pc = "idle"
    /\ handler = NoHandler
    /\ route_radio = "auto"
    /\ qa_history_state = <<>>
    /\ query_state = <<>>
    /\ route_mode_state = "auto"
    /\ answer_box = <<>>
    /\ conversation_display = Display("empty", 0)
    /\ visible = AllHidden
    /\ research_run = NoResearch
    /\ clarifier_input = <<>>
    /\ answered = {}
    /\ second = NoSecond

Init ==
    /\ InitAccount
    /\ InitUI
    /\ pc = "start"
    /\ query \in Queries
    /\ qa_pairs \in RunClarifications
    /\ route_override \in Overrides
    /\ enriched_query = <<>>
    /\ route = NoRoute
    /\ planner_request = <<>>
    /\ planner_output = <<>>
    /\ search_plan = <<>>
    /\ tasks = <<>>
    /\ search_raised = {}
    /\ completed_ok = <<>>
    /\ search_calls = <<>>
    /\ printed = <<>>
    /\ classifier_output = NoRoute
    /\ as_completed = <<>>
    /\ results = <<>>
    /\ num_completed = 0
    /\ search_results = <<>>
    /\ attempt = 0
    /\ feedback = <<>>
    /\ report = NoDraft
    /\ returned_at = "none"
    /\ writer_inputs = <<>>
    /\ evaluator_inputs = <<>>
    /\ evaluation = NoEvaluation
    /\ classifier_calls = 0
    /\ delivered = <<>>
    /\ emitted = <<>>
    /\ emitted_report = NoDraft
    /\ failure = "none"

\* an exception leaves run(): nothing after the failing call is executed
\* (variant: the failure is caught and the step is tried again)
RaiseAndRetry(call) == pc' = pc /\ failure' = call

Raise(call) == pc' = "failed" /\ failure' = call

\* run, up to the routing decision: the trace message and the enrichment
Start ==
    /\ pc = "start"
    /\ emitted' = Append(emitted, "View trace")
    /\ enriched_query' = IF Truthy(qa_pairs) THEN enrich_query(query, qa_pairs)
                                             ELSE query
    /\ pc' = "route"
    /\ UNCHANGED <<acctVars, uiVars, inputs, route, search_plan, search_results, searchVars,
                   loopVars, callVars, emitted_report, failure>>

\* run, the manual branch: route_query(enriched_query, route_override=...)
RouteManual ==
    /\ pc = "route"
    /\ UsesManualRoute(route_override)
    /\ LET built == ManualRoute(route_override)
       IN  IF QueryRouteValid(built)
           THEN /\ route' = built
                /\ emitted' = emitted \o <<"Using manual route", "Route">>
                /\ pc' = "plan"
                /\ UNCHANGED failure
           ELSE /\ Raise("QueryRoute")
                /\ emitted' = Append(emitted, "Using manual route")
                /\ UNCHANGED route
    /\ UNCHANGED <<acctVars, uiVars, inputs, enriched_query, search_plan, search_results,
                   searchVars, loopVars, callVars, emitted_report>>

\* route_query, the automatic branch: result.final_output_as(QueryRoute)
\* (variant: num_searches replaced by the count of route_map for the label)
FinalOutputCanonical(output) ==
    [output EXCEPT !.num_searches = route_map_get(output.route)]

FinalOutputAsRoute(output) == output

\* run, the automatic branch: route_query(enriched_query) asks the classifier
RouteAuto ==
    /\ pc = "route"
    /\ ~UsesManualRoute(route_override)
    /\ classifier_calls' = classifier_calls + 1
    /\ \/ /\ Raise("router_agent")
          /\ emitted' = Append(emitted, "Analyzing query type")
          /\ UNCHANGED <<route, classifier_output>>
       \/ /\ classifier_output' \in ClassifierOutputs
          /\ route' = FinalOutputAsRoute(classifier_output')
          /\ emitted' = emitted \o <<"Analyzing query type", "Route">>
          /\ pc' = "plan"
          /\ UNCHANGED failure
    /\ UNCHANGED <<acctVars, uiVars, inputs, enriched_query, search_plan, search_results,
                   searchVars, loopVars, writer_inputs, evaluator_inputs,
                   delivered, planner_request, planner_output, emitted_report>>

\* plan_searches: what it returns, given the capability's answer and num_searches:
\* result.final_output_as(WebSearchPlan)
\* (variant: the plan cut to num_searches items)
FinalOutputTruncated(searches, num_searches) ==
    SubSeq(searches, 1, IF num_searches < Len(searches) THEN num_searches
                                                        ELSE Len(searches))

FinalOutputAsPlan(searches, num_searches) == searches

\* plan_searches: one call of the planning capability, asked for
\* route.num_searches searches
PlanSearches ==
    /\ pc = "plan"
    /\ planner_request' = Append(planner_request, route.num_searches)
    /\ \/ /\ Raise("planner_agent")
          /\ UNCHANGED <<planner_output, search_plan, emitted>>
       \/ /\ planner_output' \in PlannerOutputs
          /\ search_plan' = FinalOutputAsPlan(planner_output', route.num_searches)
          /\ emitted' = Append(emitted, "Searches planned")
          /\ pc' = "perform_searches"
          /\ UNCHANGED failure
    /\ UNCHANGED <<acctVars, uiVars, inputs, enriched_query, route, search_results, searchVars,
                   loopVars, writer_inputs, evaluator_inputs, classifier_calls,
                   classifier_output, delivered, emitted_report>>

---------------------------------------------------------------------------
(* ResearchManager.perform_searches and ResearchManager.search *)

\* perform_searches: [asyncio.create_task(self.search(item)) for item in ...]
\* (variant: no task is created for the last item of the plan)
CreatedTasksButLast(searches) == [i \in 1..(Len(searches) - 1) |-> "pending"]

CreatedTasks(searches) == [i \in DOMAIN searches |-> "pending"]

\* perform_searches, up to its loop: one task is created per item of the plan
PerformSearches ==
    /\ pc = "perform_searches"
    /\ tasks' = CreatedTasks(search_plan)
    /\ search_calls' = [i \in DOMAIN tasks' |-> 0]
    /\ printed' = <<>>
    /\ search_raised' = {}
    /\ completed_ok' = <<>>
    /\ as_completed' = <<>>
    /\ results' = <<>>
    /\ num_completed' = 0
    /\ pc' = "searching"
    /\ UNCHANGED <<acctVars, uiVars, inputs, enriched_query, route, search_plan, search_results,
                   loopVars, callVars, emitted, emitted_report, failure>>

\* search: what a unit returns when the search capability answers / raises
SearchOutcomeReraised(raised) == IF raised THEN "raised" ELSE "result"

SearchOutcome(raised) == IF raised THEN "None" ELSE "result"

\* search(item), run as a task: it completes at any time, in any order
Search(i) ==
    /\ pc = "searching"
    /\ tasks[i] = "pending"
    /\ \E raised \in BOOLEAN :
          /\ tasks' = [tasks EXCEPT ![i] = SearchOutcome(raised)]
          /\ search_raised' = IF raised THEN search_raised \cup {i} ELSE search_raised
          /\ completed_ok' = IF raised THEN completed_ok ELSE Append(completed_ok, i)
    /\ search_calls' = [search_calls EXCEPT ![i] = @ + 1]
    /\ as_completed' = Append(as_completed, i)
    /\ UNCHANGED <<acctVars, uiVars, pc, inputs, enriched_query, route, search_plan, search_results,
                   results, num_completed, printed, loopVars, callVars, emitted,
                   emitted_report, failure>>

\* asyncio.as_completed: the next task it yields is the one that completed
\* first among those not yet consumed
\* (variant: the tasks awaited in the order of the plan, as asyncio.gather does)
NextInPlanOrder(done) ==
    CHOOSE i \in {done[k] : k \in 1..Len(done)} :
        \A k \in 1..Len(done) : i <= done[k]

NextCompleted(done) == Head(done)

\* perform_searches: num_completed += 1, whatever the task returned
\* (variant: only the tasks that returned a result are counted)
CountCompletionOfResult(n, outcome) == IF outcome = "None" THEN n ELSE n + 1

CountCompletion(n, outcome) == n + 1

\* perform_searches, one turn of "for task in asyncio.as_completed(tasks)"
CollectResult ==
    /\ pc = "searching"
    /\ as_completed # <<>>
    /\ LET i == NextCompleted(as_completed)
           Other(j) == j # i
       IN  /\ as_completed' = SelectSeq(as_completed, Other)
           /\ IF tasks[i] = "raised"
              THEN /\ Raise("search")
                   /\ UNCHANGED <<results, num_completed, printed>>
              ELSE /\ results' = IF tasks[i] # "None" THEN Append(results, search_plan[i])
                                                      ELSE results
                   /\ num_completed' = CountCompletion(num_completed, tasks[i])
                   /\ printed' = Append(printed, <<num_completed', Len(tasks)>>)
                   /\ UNCHANGED <<pc, failure>>
    /\ UNCHANGED <<acctVars, uiVars, inputs, enriched_query, route, search_plan, search_results,
                   tasks, search_raised, completed_ok, search_calls, loopVars,
                   callVars, emitted, emitted_report>>

\* perform_searches: asyncio.as_completed is exhausted once it has yielded
\* every task it was given
LoopExhaustedEarly(n, created) == n >= 1 \/ n = created

LoopExhausted(n, created) == n = created

\* perform_searches returns, and run goes on into write_report_with_evaluation
\* (attempt = 0, feedback = "", and the first test of the while condition)
PerformSearchesReturn ==
    /\ pc = "searching"
    /\ LoopExhausted(num_completed, Len(tasks))
    /\ search_results' = results
    /\ emitted' = Append(emitted, "Searches complete")
    /\ attempt' = 0
    /\ feedback' = <<>>
    /\ IF LoopContinues(0)
       THEN pc' = "write" /\ UNCHANGED failure
       ELSE Raise("UnboundLocalError")
    /\ UNCHANGED <<acctVars, uiVars, inputs, enriched_query, route, search_plan, searchVars,
                   report, returned_at, evaluation, callVars, emitted_report>>

---------------------------------------------------------------------------
(* ResearchManager.write_report_with_evaluation *)

\* "return report", and run's next yield
ReturnReport(statement) ==
    /\ returned_at' = statement
    /\ emitted' = Append(emitted, "Report finalized")
    /\ pc' = "send_email"

\* report = await self.write_report(...): the new draft replaces the previous
\* (variant: the first draft is kept)
AssignReportOnce(previous, written) == IF previous = NoDraft THEN written ELSE previous

AssignReport(previous, written) == written

\* one turn of the while loop up to the evaluation: attempt += 1, write_report,
\* and the test that skips the evaluation
WriteReport ==
    /\ pc = "write"
    /\ attempt' = attempt + 1
    /\ writer_inputs' = Append(writer_inputs,
                               [attempt |-> attempt',
                                feedback |-> feedback,
                                search_results |-> search_results])
    /\ \/ /\ Raise("writer_agent")
          /\ UNCHANGED <<report, returned_at, emitted>>
       \/ /\ report' = AssignReport(report, Len(writer_inputs'))
          /\ IF SkipsEvaluation(route, attempt')
             THEN ReturnReport("complete")
             ELSE pc' = "evaluate" /\ UNCHANGED <<returned_at, emitted>>
          /\ UNCHANGED failure
    /\ UNCHANGED <<acctVars, uiVars, inputs, enriched_query, route, search_plan, search_results,
                   searchVars, feedback, evaluation, evaluator_inputs,
                   classifier_calls, classifier_output, delivered, planner_request,
                   planner_output, emitted_report>>

\* the rest of the turn: evaluate_report, the return on approval, the feedback
\* for the revision and the next test of the while condition
EvaluateReport ==
    /\ pc = "evaluate"
    /\ evaluator_inputs' = Append(evaluator_inputs, report)
    /\ \/ /\ Raise("evaluator_agent")
          /\ UNCHANGED <<evaluation, feedback, returned_at, emitted>>
       \/ /\ evaluation' \in EvaluatorOutputs
          /\ IF evaluation'.is_acceptable
             THEN /\ ReturnReport("approved")
                  /\ UNCHANGED feedback
             ELSE /\ feedback' = BuildFeedback(evaluation')
                  /\ IF LoopContinues(attempt)
                     THEN pc' = "write" /\ UNCHANGED <<returned_at, emitted>>
                     ELSE ReturnReport("after_loop")
          /\ UNCHANGED failure
    /\ UNCHANGED <<acctVars, uiVars, inputs, enriched_query, route, search_plan, search_results,
                   searchVars, attempt, report, writer_inputs, classifier_calls,
                   classifier_output, delivered, planner_request, planner_output,
                   emitted_report>>

\* run's last two yields
\* (variant: the report yielded before the delivery confirmation)
FinalYieldsReportFirst == <<"markdown_report", "Email sent">>

FinalYields == <<"Email sent", "markdown_report">>

\* send_email, and run's last two yields
SendEmail ==
    /\ pc = "send_email"
    /\ delivered' = Append(delivered, report)
    /\ \/ /\ Raise("email_agent")
          /\ UNCHANGED <<emitted, emitted_report>>
       \/ /\ emitted' = emitted \o FinalYields
          /\ emitted_report' = report
          /\ pc' = "done"
          /\ UNCHANGED failure
    /\ UNCHANGED <<acctVars, uiVars, inputs, enriched_query, route, search_plan, search_results,
                   searchVars, loopVars, writer_inputs, evaluator_inputs,
                   classifier_calls, classifier_output, planner_request,
                   planner_output>>

Next ==
    \/ Start
    \/ RouteManual
    \/ RouteAuto
    \/ PlanSearches
    \/ PerformSearches
    \/ \E i \in DOMAIN tasks : Search(i)
    \/ CollectResult
    \/ PerformSearchesReturn
    \/ WriteReport
    \/ EvaluateReport
    \/ SendEmail

Spec == Init /\ [][Next]_vars

---------------------------------------------------------------------------
(* No run of the workflow: the state of the workflow's variables in the
   specifications of the other programs of the repository *)

WorkflowNotStarted ==
    /\ pc = "not_started"
    /\ query = <<>>
    /\ qa_pairs = <<>>
    /\ route_override = NoneValue
    /\ enriched_query = <<>>
    /\ route = NoRoute
    /\ planner_request = <<>>
    /\ planner_output = <<>>
    /\ search_plan = <<>>
    /\ tasks = <<>>
    /\ search_raised = {}
    /\ completed_ok = <<>>
    /\ search_calls = <<>>
    /\ printed = <<>>
    /\ classifier_output = NoRoute
    /\ as_completed = <<>>
    /\ results = <<>>
    /\ num_completed = 0
    /\ search_results = <<>>
    /\ attempt = 0
    /\ feedback = <<>>
    /\ report = NoDraft
    /\ returned_at = "none"
    /\ writer_inputs = <<>>
    /\ evaluator_inputs = <<>>
    /\ evaluation = NoEvaluation
    /\ classifier_calls = 0
    /\ delivered = <<>>
    /\ emitted = <<>>
    /\ emitted_report = NoDraft
    /\ failure = "none"

workflowVars == <<pc, inputs, enriched_query, route, search_plan, search_results,
                  searchVars, loopVars, callVars, emitted, emitted_report, failure>>

---------------------------------------------------------------------------
(* Account (engineering_team/output/accounts.py): any sequence of calls on a
   new Account.  Amounts and prices are integers. *)

MaxQuantity == 1       \* largest number of shares in one record_transaction
MaxTransactions == 3   \* longest transaction list

Symbols == {"AAPL", "TSLA", "XYZ"}
Quantities == (0 - MaxQuantity)..MaxQuantity

get_share_price(symbol) ==
    CASE symbol = "AAPL" -> 150
      [] symbol = "TSLA" -> 700
      [] symbol = "GOOGL" -> 2800
      [] OTHER -> 0

Amounts ==
    {0 - 1, 0} \cup {get_share_price(s) * k : s \in Symbols, k \in 1..MaxQuantity}

abs(n) == IF n < 0 THEN 0 - n ELSE n

\* self.holdings.get(symbol, 0)
holdings_get(h, symbol) == IF symbol \in DOMAIN h THEN h[symbol] ELSE 0

\* self.holdings[symbol] = quantity
holdings_set(h, symbol, quantity) ==
    [s \in DOMAIN h \cup {symbol} |-> IF s = symbol THEN quantity ELSE h[s]]

Call(op, symbol, number, raised, returned) ==
    [op |-> op, symbol |-> symbol, number |-> number, raised |-> raised,
     returned |-> returned]

ledger == <<balance, holdings, initial_deposit, transactions>>

\* raise ValueError(...): the statements after it are not executed
RaiseValueError(op, symbol, number) ==
    /\ last_call' = Call(op, symbol, number, "ValueError", <<>>)
    /\ UNCHANGED ledger

\* (variant: a deposit of zero is accepted)
DepositRejectedIfNegative(amount) == amount < 0

DepositRejected(amount) == amount <= 0

deposit_funds(amount) ==
    /\ IF DepositRejected(amount)
       THEN RaiseValueError("deposit_funds", "", amount)
       ELSE /\ Len(transactions) < MaxTransactions
            /\ balance' = balance + amount
            /\ initial_deposit' = initial_deposit + amount
            /\ transactions' = Append(transactions, <<"DEPOSIT", amount>>)
            /\ last_call' = Call("deposit_funds", "", amount, NoneValue, <<>>)
            /\ UNCHANGED holdings
    /\ UNCHANGED <<workflowVars, uiVars>>

\* (variant: the balance is not compared with the amount)
WithdrawRejectedIfNotPositive(amount, available) == amount <= 0

WithdrawRejected(amount, available) == amount > available \/ amount <= 0

withdraw_funds(amount) ==
    /\ IF WithdrawRejected(amount, balance)
       THEN RaiseValueError("withdraw_funds", "", amount)
       ELSE /\ Len(transactions) < MaxTransactions
            /\ balance' = balance - amount
            /\ transactions' = Append(transactions, <<"WITHDRAW", amount>>)
            /\ last_call' = Call("withdraw_funds", "", amount, NoneValue, <<>>)
            /\ UNCHANGED <<holdings, initial_deposit>>
    /\ UNCHANGED <<workflowVars, uiVars>>

TransactionRejected(quantity, cost, available, held) ==
    \/ quantity > 0 /\ cost > available
    \/ quantity < 0 /\ held < abs(quantity)

\* (variant: the entry records the number of shares without its sign)
TransactionEntryUnsigned(symbol, quantity, price) ==
    <<IF quantity > 0 THEN "BUY" ELSE "SELL", symbol, abs(quantity), price>>

TransactionEntry(symbol, quantity, price) ==
    <<IF quantity > 0 THEN "BUY" ELSE "SELL", symbol, quantity, price>>

record_transaction(symbol, quantity) ==
    /\ LET price == get_share_price(symbol)
           cost == price * quantity
       IN  IF TransactionRejected(quantity, cost, balance, holdings_get(holdings, symbol))
           THEN RaiseValueError("record_transaction", symbol, quantity)
           ELSE /\ Len(transactions) < MaxTransactions
                /\ balance' = balance - cost
                /\ holdings' = holdings_set(holdings, symbol,
                                            holdings_get(holdings, symbol) + quantity)
                /\ transactions' =
                       Append(transactions, TransactionEntry(symbol, quantity, price))
                /\ last_call' =
                       Call("record_transaction", symbol, quantity, NoneValue, <<>>)
                /\ UNCHANGED initial_deposit
    /\ UNCHANGED <<workflowVars, uiVars>>

\* sum(get_share_price(symbol) * quantity for symbol, quantity in holdings.items())
\* (variant: the shares are counted, not priced)
RECURSIVE calculate_portfolio_shares(_)
calculate_portfolio_shares(h) ==
    IF DOMAIN h = {} THEN 0
    ELSE LET symbol == CHOOSE x \in DOMAIN h : TRUE
             rest == [x \in DOMAIN h \ {symbol} |-> h[x]]
         IN  h[symbol] + calculate_portfolio_shares(rest)

RECURSIVE calculate_portfolio_value(_)
calculate_portfolio_value(h) ==
    IF DOMAIN h = {} THEN 0
    ELSE LET symbol == CHOOSE x \in DOMAIN h : TRUE
             rest == [x \in DOMAIN h \ {symbol} |-> h[x]]
         IN  get_share_price(symbol) * h[symbol] + calculate_portfolio_value(rest)

\* (self.calculate_portfolio_value() + self.balance) - self.initial_deposit
calculate_profit_loss(h, available, deposited) ==
    (calculate_portfolio_value(h) + available) - deposited

list_transactions ==
    /\ last_call' = Call("list_transactions", "", 0, NoneValue, transactions)
    /\ UNCHANGED ledger
    /\ UNCHANGED <<workflowVars, uiVars>>

InitAccountCalls ==
    /\ WorkflowNotStarted
    /\ InitUI
    /\ InitAccount

NextAccount ==
    \/ \E amount \in Amounts : deposit_funds(amount)
    \/ \E amount \in Amounts : withdraw_funds(amount)
    \/ \E symbol \in Symbols, quantity \in Quantities :
           record_transaction(symbol, quantity)
    \/ list_transactions

SpecAccount == InitAccountCalls /\ [][NextAccount]_vars

---------------------------------------------------------------------------
(* The interactive session (deep_research_interactive.py): the handlers wired
   to start_btn, route_radio, reset_btn, submit_btn and answer_box, dispatched
   one at a time; a handler is in flight from its event to its last output. *)

MAX_QUESTIONS == 3

UiQueries == {<<>>, <<" ">>, <<"q">>}      \* contents of query_textbox
RouteModes == {"auto", "technical"}       \* two of the choices of route_radio
UiAnswers == {<<>>, <<" ">>, <<"x">>}      \* contents typed into answer_box
ClarifyingQuestions == {<<"Q1">>}         \* question_obj.question

Shown(answer_section, submit_btn, reset_btn) ==
    [answer_section |-> answer_section, submit_btn |-> submit_btn,
     reset_btn |-> reset_btn]

\* the user edits answer_box
TypeAnswer(answer) ==
    /\ answer_box # answer
    /\ answer_box' = answer
    /\ UNCHANGED <<ui_pc, handler, route_radio, qa_history_state, query_state,
                   route_mode_state, conversation_display, visible, research_run>>
    /\ UNCHANGED <<workflowVars, acctVars, clarifier_input, answered, second>>

\* route_radio.change(fn=lambda x: x, outputs=[route_mode_state])
ChangeRoute(x) ==
    /\ ui_pc = "idle"
    /\ x # route_radio
    /\ route_radio' = x
    /\ route_mode_state' = x
    /\ UNCHANGED <<ui_pc, handler, qa_history_state, query_state, answer_box,
                   conversation_display, visible, research_run>>
    /\ UNCHANGED <<workflowVars, acctVars, clarifier_input, answered, second>>

\* reset_btn.click: reset_research
ResetResearch ==
    /\ ui_pc = "idle"
    /\ conversation_display' = Display("empty", 0)
    /\ visible' = AllHidden
    /\ qa_history_state' = <<>>
    /\ query_state' = <<>>
    /\ route_mode_state' = "auto"
    /\ UNCHANGED <<ui_pc, handler, route_radio, answer_box, research_run>>
    /\ answered' = {}
    /\ UNCHANGED <<workflowVars, acctVars, clarifier_input, second>>

\* start_btn.click: start_clarification up to its return or its await
StartClarification(q) ==
    /\ ui_pc = "idle"
    /\ IF strip(q) = <<>>
       THEN /\ conversation_display' = Display("Please enter a research query first", 0)
            /\ visible' = AllHidden
            /\ query_state' = q
            /\ route_mode_state' = route_radio
            /\ UNCHANGED <<ui_pc, handler, qa_history_state, clarifier_input>>
       ELSE /\ ui_pc' = "start_await"
            /\ clarifier_input' = <<>>
            /\ handler' = [fn |-> "start_clarification", query |-> q,
                           route_mode |-> route_radio]
            /\ UNCHANGED <<conversation_display, visible, query_state,
                           route_mode_state, qa_history_state>>
    /\ UNCHANGED <<route_radio, answer_box, research_run>>
    /\ UNCHANGED <<workflowVars, acctVars, answered, second>>

\* start_clarification from the return of generate_clarifying_question(query, [])
StartQuestionReturned(question) ==
    /\ ui_pc = "start_await"
    /\ conversation_display' = Display("Clarifying Question", 1)
    /\ visible' = Shown(TRUE, TRUE, FALSE)
    /\ qa_history_state' = << <<question, <<>>>> >>
    /\ query_state' = handler.query
    /\ route_mode_state' = handler.route_mode
    /\ ui_pc' = "idle"
    /\ handler' = NoHandler
    /\ UNCHANGED <<route_radio, answer_box, research_run>>
    /\ answered' = {}
    /\ UNCHANGED <<workflowVars, acctVars, clarifier_input, second>>

\* qa_history[-1] = (qa_history[-1][0], answer.strip())
RecordAnswer(history, answer) ==
    [history EXCEPT ![Len(history)] = <<@[1], strip(answer)>>]

\* (variant: research starts only once the last answer is not blank)
ResearchDueWhenAnswered(history) ==
    Len(history) >= MAX_QUESTIONS /\ history[Len(history)][2] # <<>>

\* if len(qa_history) >= MAX_QUESTIONS
ResearchDue(history) == Len(history) >= MAX_QUESTIONS

\* route_override = None if route_mode == "auto" else route_mode
RouteOverrideOf(route_mode) == IF route_mode = "auto" THEN NoneValue ELSE route_mode

\* submit_btn.click / answer_box.submit: handle_answer up to its first await:
\* the error yield, or the call of manager.run after the first yield, or the
\* call of generate_clarifying_question
HandleAnswer ==
    /\ ui_pc = "idle"
    /\ IF qa_history_state = <<>>
       THEN /\ conversation_display' = Display("Error: No question in progress", 0)
            /\ visible' = [visible EXCEPT !.reset_btn = FALSE]
            /\ answer_box' = <<>>
            /\ UNCHANGED <<ui_pc, handler, qa_history_state, research_run,
                           clarifier_input, answered>>
       ELSE LET recorded == RecordAnswer(qa_history_state, answer_box)
            IN  /\ qa_history_state' = recorded
                /\ answered' = answered \cup {Len(recorded)}
                /\ handler' = [fn |-> "handle_answer", query |-> query_state,
                               route_mode |-> route_mode_state]
                /\ IF ResearchDue(recorded)
                   THEN /\ conversation_display' = Display("Starting research", 0)
                        /\ visible' = AllHidden
                        /\ answer_box' = <<>>
                        /\ research_run' =
                               [query |-> enrich_query(query_state, recorded),
                                route_override |-> RouteOverrideOf(route_mode_state)]
                        /\ ui_pc' = "running"
                        /\ UNCHANGED clarifier_input
                   ELSE /\ ui_pc' = "answer_await"
                        /\ clarifier_input' = recorded
                        /\ UNCHANGED <<conversation_display, visible, answer_box,
                                       research_run>>
    /\ UNCHANGED <<route_radio, query_state, route_mode_state>>
    /\ UNCHANGED <<workflowVars, acctVars, second>>

\* handle_answer from the return of generate_clarifying_question(query, qa_history)
AnswerQuestionReturned(question) ==
    /\ ui_pc = "answer_await"
    /\ qa_history_state' = Append(qa_history_state, <<question, <<>>>>)
    /\ conversation_display' = Display("Clarifying Question", Len(qa_history_state) + 1)
    /\ visible' = Shown(TRUE, TRUE, FALSE)
    /\ answer_box' = handler.query
    /\ route_mode_state' = handler.route_mode
    /\ ui_pc' = "idle"
    /\ handler' = NoHandler
    /\ UNCHANGED <<route_radio, query_state, research_run>>
    /\ UNCHANGED <<workflowVars, acctVars, clarifier_input, answered, second>>

\* handle_answer: one turn of "async for chunk in manager.run(...)"
ResearchChunk ==
    /\ ui_pc = "running"
    /\ conversation_display' = Display("chunk", 0)
    /\ visible' = AllHidden
    /\ answer_box' = <<>>
    /\ route_mode_state' = handler.route_mode
    /\ UNCHANGED <<ui_pc, handler, route_radio, qa_history_state, query_state,
                   research_run>>
    /\ UNCHANGED <<workflowVars, acctVars, clarifier_input, answered, second>>

\* handle_answer after the loop: the completion text, reset_btn shown
ResearchComplete ==
    /\ ui_pc = "running"
    /\ conversation_display' = Display("Research Complete", 0)
    /\ visible' = Shown(FALSE, FALSE, TRUE)
    /\ answer_box' = <<>>
    /\ route_mode_state' = handler.route_mode
    /\ ui_pc' = "idle"
    /\ handler' = NoHandler
    /\ UNCHANGED <<route_radio, qa_history_state, query_state, research_run>>
    /\ UNCHANGED <<workflowVars, acctVars, clarifier_input, answered, second>>

\* an awaited call raises: the handler ends and none of its outputs is written
HandlerRaises ==
    /\ ui_pc \in {"start_await", "answer_await", "running"}
    /\ ui_pc' = "idle"
    /\ handler' = NoHandler
    /\ UNCHANGED <<route_radio, qa_history_state, query_state, route_mode_state,
                   answer_box, conversation_display, visible, research_run>>
    /\ UNCHANGED <<workflowVars, acctVars, clarifier_input, answered, second>>

InitSession ==
    /\ WorkflowNotStarted
    /\ InitAccount
    /\ InitUI

NextSession ==
    \/ \E answer \in UiAnswers : TypeAnswer(answer)
    \/ \E x \in RouteModes : ChangeRoute(x)
    \/ ResetResearch
    \/ \E q \in UiQueries : StartClarification(q)
    \/ \E question \in ClarifyingQuestions : StartQuestionReturned(question)
    \/ HandleAnswer
    \/ \E question \in ClarifyingQuestions : AnswerQuestionReturned(question)
    \/ ResearchChunk
    \/ ResearchComplete
    \/ HandlerRaises

SpecSession == InitSession /\ [][NextSession]_vars

---------------------------------------------------------------------------
(* The interactive session with two handle_answer invocations in flight: while
   one invocation awaits the next question, the other event wired to
   handle_answer (submit_btn.click / answer_box.submit) is dispatched.  Both
   work on the same qa_history list.  No other event is dispatched while the
   second invocation is in flight. *)

\* the second invocation of handle_answer, up to its first await
HandleAnswerOverlapping ==
    /\ ui_pc = "answer_await"
    /\ second.pc = "none"
    /\ IF qa_history_state = <<>>
       THEN /\ conversation_display' = Display("Error: No question in progress", 0)
            /\ visible' = [visible EXCEPT !.reset_btn = FALSE]
            /\ answer_box' = <<>>
            /\ UNCHANGED <<second, qa_history_state, research_run, clarifier_input,
                           answered>>
       ELSE LET recorded == RecordAnswer(qa_history_state, answer_box)
            IN  /\ qa_history_state' = recorded
                /\ answered' = answered \cup {Len(recorded)}
                /\ IF ResearchDue(recorded)
                   THEN /\ conversation_display' = Display("Starting research", 0)
                        /\ visible' = AllHidden
                        /\ answer_box' = <<>>
                        /\ research_run' =
                               [query |-> enrich_query(query_state, recorded),
                                route_override |-> RouteOverrideOf(route_mode_state)]
                        /\ second' = [pc |-> "running", query |-> query_state,
                                      route_mode |-> route_mode_state]
                        /\ UNCHANGED clarifier_input
                   ELSE /\ second' = [pc |-> "answer_await", query |-> query_state,
                                      route_mode |-> route_mode_state]
                        /\ clarifier_input' = recorded
                        /\ UNCHANGED <<conversation_display, visible, answer_box,
                                       research_run>>
    /\ UNCHANGED <<ui_pc, handler, route_radio, query_state, route_mode_state>>
    /\ UNCHANGED <<workflowVars, acctVars>>

\* the second invocation from the return of generate_clarifying_question
SecondQuestionReturned(question) ==
    /\ second.pc = "answer_await"
    /\ qa_history_state' = Append(qa_history_state, <<question, <<>>>>)
    /\ conversation_display' = Display("Clarifying Question", Len(qa_history_state) + 1)
    /\ visible' = Shown(TRUE, TRUE, FALSE)
    /\ answer_box' = second.query
    /\ route_mode_state' = second.route_mode
    /\ second' = NoSecond
    /\ UNCHANGED <<ui_pc, handler, route_radio, query_state, research_run,
                   clarifier_input, answered>>
    /\ UNCHANGED <<workflowVars, acctVars>>

\* the second invocation: one turn of "async for chunk in manager.run(...)"
SecondResearchChunk ==
    /\ second.pc = "running"
    /\ conversation_display' = Display("chunk", 0)
    /\ visible' = AllHidden
    /\ answer_box' = <<>>
    /\ route_mode_state' = second.route_mode
    /\ UNCHANGED <<ui_pc, handler, route_radio, qa_history_state, query_state,
                   research_run, clarifier_input, answered, second>>
    /\ UNCHANGED <<workflowVars, acctVars>>

\* the second invocation after the loop: the completion text, reset_btn shown
SecondResearchComplete ==
    /\ second.pc = "running"
    /\ conversation_display' = Display("Research Complete", 0)
    /\ visible' = Shown(FALSE, FALSE, TRUE)
    /\ answer_box' = <<>>
    /\ route_mode_state' = second.route_mode
    /\ second' = NoSecond
    /\ UNCHANGED <<ui_pc, handler, route_radio, qa_history_state, query_state,
                   research_run, clarifier_input, answered>>
    /\ UNCHANGED <<workflowVars, acctVars>>

\* an awaited call of the second invocation raises
SecondRaises ==
    /\ second.pc \in {"answer_await", "running"}
    /\ second' = NoSecond
    /\ UNCHANGED <<ui_pc, handler, route_radio, qa_history_state, query_state,
                   route_mode_state, answer_box, conversation_display, visible,
                   research_run, clarifier_input, answered>>
    /\ UNCHANGED <<workflowVars, acctVars>>

\* the steps of the first invocation and of the user while the second is in flight
FirstGoesOn ==
    /\ second.pc # "none"
    /\ \/ \E answer \in UiAnswers : TypeAnswer(answer)
       \/ \E question \in ClarifyingQuestions : AnswerQuestionReturned(question)
       \/ HandlerRaises

OneAtATime ==
    /\ second.pc = "none"
    /\ NextSession

NextOverlap ==
    \/ OneAtATime
    \/ FirstGoesOn
    \/ HandleAnswerOverlapping
    \/ \E question \in ClarifyingQuestions : SecondQuestionReturned(question)
    \/ SecondResearchChunk
    \/ SecondResearchComplete
    \/ SecondRaises

SpecOverlap == InitSession /\ [][NextOverlap]_vars

---------------------------------------------------------------------------
(* enrich_query applied to every clarification list within the bounds *)

InitEnrich ==
    /\ InitAccount
    /\ InitUI
    /\ pc = "enrich_query"
    /\ query \in Queries
    /\ qa_pairs \in QaLists
    /\ route_override = NoneValue
    /\ enriched_query = <<>>
    /\ route = NoRoute
    /\ planner_request = <<>>
    /\ planner_output = <<>>
    /\ search_plan = <<>>
    /\ tasks = <<>>
    /\ search_raised = {}
    /\ completed_ok = <<>>
    /\ search_calls = <<>>
    /\ printed = <<>>
    /\ classifier_output = NoRoute
    /\ as_completed = <<>>
    /\ results = <<>>
    /\ num_completed = 0
    /\ search_results = <<>>
    /\ attempt = 0
    /\ feedback = <<>>
    /\ report = NoDraft
    /\ returned_at = "none"
    /\ writer_inputs = <<>>
    /\ evaluator_inputs = <<>>
    /\ evaluation = NoEvaluation
    /\ classifier_calls = 0
    /\ delivered = <<>>
    /\ emitted = <<>>
    /\ emitted_report = NoDraft
    /\ failure = "none"

EnrichQuery ==
    /\ pc = "enrich_query"
    /\ enriched_query' = enrich_query(query, qa_pairs)
    /\ pc' = "enrich_returned"
    /\ UNCHANGED <<acctVars, uiVars, inputs, route, search_plan, search_results, searchVars,
                   loopVars, callVars, emitted, emitted_report, failure>>

NextEnrich == EnrichQuery

SpecEnrich == InitEnrich /\ [][NextEnrich]_vars

---------------------------------------------------------------------------
(* Properties *)

HasEmitted(message) == \E k \in 1..Len(emitted) : emitted[k] = message

WriterCalls == Len(writer_inputs)
EvaluatorCalls == Len(evaluator_inputs)

\* C1: in a run whose route is quick, the Evaluator is never invoked, the Writer
\* is invoked at most once, and when write_report_with_evaluation returns (the
\* Writer call having succeeded) the Writer has been invoked exactly once.
C1_QuickWritesOnceNeverEvaluates ==
    route.route = "quick" =>
        /\ EvaluatorCalls = 0
        /\ WriterCalls <= 1
        /\ returned_at # "none" => WriterCalls = 1 /\ returned_at = "complete"

C1_Witness ==
    /\ route.route = "quick"
    /\ returned_at = "complete"
    /\ WriterCalls = 1
    /\ pc = "done"

\* C2: in a run whose route is not quick, whatever the Evaluator answers, the
\* Writer is invoked at most MAX_REVISION_ATTEMPTS times and the Evaluator at
\* most MAX_REVISION_ATTEMPTS - 1 times, and each attempt makes exactly one
\* Writer invocation (the k-th Writer call is the one of attempt k).
C2_RevisionLoopBounded ==
    route.route # "quick" =>
        /\ WriterCalls <= MAX_REVISION_ATTEMPTS
        /\ EvaluatorCalls <= MAX_REVISION_ATTEMPTS - 1
        /\ WriterCalls = attempt
        /\ \A k \in 1..WriterCalls : writer_inputs[k].attempt = k

C2_Witness ==
    /\ route.route \in Routes \ {"quick"}
    /\ WriterCalls = MAX_REVISION_ATTEMPTS
    /\ EvaluatorCalls = MAX_REVISION_ATTEMPTS - 1
    /\ pc = "done"

\* C3: perform_searches never raises because a search unit failed, and on a
\* plan of N items of which K units raised it returns exactly N - K results.
C3_FailedSearchesAreDropped ==
    /\ failure # "search"
    /\ HasEmitted("Searches complete") =>
          Len(search_results) = Len(search_plan) - Cardinality(search_raised)

C3_Witness ==
    /\ HasEmitted("Searches complete")
    /\ Len(search_plan) = 3
    /\ Cardinality(search_raised) = 2
    /\ Len(search_results) = 1

\* C4: the search stage is a join: when perform_searches has returned, and
\* whenever the Writer has been invoked, one task had been created per item of
\* the plan and none of them is still pending.
C4_SearchStageIsJoin ==
    (HasEmitted("Searches complete") \/ WriterCalls > 0) =>
        /\ DOMAIN tasks = DOMAIN search_plan
        /\ \A i \in DOMAIN tasks : tasks[i] # "pending"

C4_Witness ==
    /\ WriterCalls = 1
    /\ Len(tasks) = 3
    /\ search_raised = {2}
    /\ \A i \in DOMAIN tasks : tasks[i] # "pending"

\* C5: with a manual override quick/deep/technical/comparative the route used
\* is that label with num_searches 3/5/5/6 and the reasoning 'Manually selected
\* <label> route', and the classifier is never invoked in the run; with no
\* override (None or 'auto') the classifier is invoked exactly once, at routing.
CanonicalCounts ==
    ("quick" :> 3) @@ ("deep" :> 5) @@ ("technical" :> 5) @@ ("comparative" :> 6)

C5_OverrideBypassesClassifier ==
    /\ route_override \in Routes =>
          /\ classifier_calls = 0
          /\ HasEmitted("Route") =>
                /\ route.route = route_override
                /\ route.num_searches = CanonicalCounts[route_override]
                /\ route.reasoning = <<"Manually selected ", route_override, " route">>
    /\ route_override \in {NoneValue, "auto"} =>
          classifier_calls = IF pc \in {"start", "route"} THEN 0 ELSE 1

C5_Witness ==
    /\ route_override = "comparative"
    /\ route.num_searches = 6
    /\ classifier_calls = 0
    /\ pc = "done"

\* C6: an override label that is not one of the four known routes does not make
\* routing fail: the route gets num_searches 5 and the run goes on to planning.
C6_UnknownOverrideFallsBack ==
    (UsesManualRoute(route_override) /\ route_override \notin Routes
        /\ pc \notin {"start", "route"}) =>
        /\ failure # "QueryRoute"
        /\ route.num_searches = 5

\* C7 as stated: whatever the planning capability returns, the plan handed to
\* perform_searches has as many items as the route's num_searches, and at least one.
C7_PlanLengthIsNumSearches ==
    HasEmitted("Searches planned") =>
        /\ Len(search_plan) = route.num_searches
        /\ Len(search_plan) > 0

\* C7 as amended: the plan handed to perform_searches is the plan the planning
\* capability returned, unchanged, the capability having been asked once for the
\* route's num_searches; so its length is num_searches, and it is not empty,
\* whenever the capability returns exactly num_searches >= 1 items.
C7_PlanIsPlannerOutput ==
    HasEmitted("Searches planned") =>
        /\ planner_request = <<route.num_searches>>
        /\ search_plan = planner_output
        /\ (Len(planner_output) = route.num_searches /\ route.num_searches >= 1) =>
              (Len(search_plan) = route.num_searches /\ Len(search_plan) > 0)

C7_Witness ==
    /\ pc = "searching"
    /\ route.num_searches = 3
    /\ Len(search_plan) = 3
    /\ Len(tasks) = 3

\* Reading an enriched query back: the text is searched for a fragment, and the
\* (question, answer) pairs listed after "Additional Context:" are parsed out.
Contains(text, part) ==
    \E k \in 0..(Len(text) - Len(part)) : SubSeq(text, k + 1, k + Len(part)) = part

FirstIndex(text, fragment) ==
    IF \E k \in 1..Len(text) : text[k] = fragment
    THEN CHOOSE k \in 1..Len(text) :
            text[k] = fragment /\ \A j \in 1..(k - 1) : text[j] # fragment
    ELSE 0

RECURSIVE ParseLines(_)
ParseLines(text) ==
    LET a == FirstIndex(text, "\n  Answer: ")
        rest == SubSeq(text, a + 1, Len(text))
        e == FirstIndex(rest, "\n")
    IN  IF text = <<>> \/ Head(text) # "- " \/ a = 0 \/ e = 0 THEN <<>>
        ELSE << <<SubSeq(text, 2, a - 1), SubSeq(rest, 1, e - 1)>> >>
                \o ParseLines(SubSeq(rest, e + 1, Len(rest)))

ListedPairs(text) ==
    LET c == FirstIndex(text, "\n\nAdditional Context:\n")
    IN  IF c = 0 THEN <<>> ELSE ParseLines(SubSeq(text, c + 1, Len(text)))

IsBlank(answer) == \A k \in 1..Len(answer) : answer[k] \in Whitespace
HasAnswer(pair) == ~IsBlank(pair[2])

\* C8: enrich_query returns the original query unchanged when the list is empty
\* or every answer is blank; otherwise its result contains the original query
\* and lists, in input order, exactly the pairs whose answer is not blank.
C8_EnrichDropsBlankAnswers ==
    pc = "enrich_returned" =>
        IF \A k \in 1..Len(qa_pairs) : IsBlank(qa_pairs[k][2])
        THEN enriched_query = query
        ELSE /\ Contains(enriched_query, query)
             /\ ListedPairs(enriched_query) = SelectSeq(qa_pairs, HasAnswer)

C8_Witness ==
    /\ pc = "enrich_returned"
    /\ Len(qa_pairs) = 2
    /\ IsBlank(qa_pairs[1][2])
    /\ qa_pairs[2] = <<<<"Q2">>, <<" ", "x">>>>
    /\ ListedPairs(enriched_query) = <<qa_pairs[2]>>

\* C9: the Writer of attempt 1 receives the empty feedback, and the Writer of
\* the attempt that follows a rejection with issues I and suggestions S receives
\* 'Issues: ' + I joined by ', ' + '\nSuggestions: ' + S; for issues [A, B] and
\* suggestions C that is 'Issues: A, B\nSuggestions: C'.
IssuesJoined(issues) ==
    [k \in 1..(IF issues = <<>> THEN 0 ELSE 2 * Len(issues) - 1) |->
        IF k % 2 = 1 THEN issues[(k + 1) \div 2] ELSE ", "]

C9_FeedbackGivenToWriter ==
    /\ WriterCalls >= 1 => writer_inputs[1].feedback = <<>>
    /\ WriterCalls >= 2 =>
          /\ ~evaluation.is_acceptable
          /\ writer_inputs[2].feedback =
                <<"Issues: ">> \o IssuesJoined(evaluation.issues)
                    \o <<"\nSuggestions: ">> \o evaluation.suggestions
          /\ (evaluation.issues = <<"A", "B">> /\ evaluation.suggestions = <<"C">>) =>
                writer_inputs[2].feedback =
                    <<"Issues: ", "A", ", ", "B", "\nSuggestions: ", "C">>

C9_Witness ==
    /\ WriterCalls = 2
    /\ evaluation.issues = <<"A", "B">>
    /\ evaluation.suggestions = <<"C">>
    /\ writer_inputs[2].feedback = <<"Issues: ", "A", ", ", "B", "\nSuggestions: ", "C">>

\* C10: with a route that is not quick, once write_report_with_evaluation has
\* returned (every call having succeeded): if the Evaluator accepted the first
\* draft, the Writer was invoked exactly once and the draft returned is the one
\* evaluated; if it rejected the first draft, the Writer was invoked exactly
\* twice. No Writer call follows the return.
C10_OneOrTwoWriterCalls ==
    (route.route \in Routes \ {"quick"} /\ returned_at # "none") =>
        /\ EvaluatorCalls = 1
        /\ IF evaluation.is_acceptable
           THEN /\ WriterCalls = 1
                /\ evaluator_inputs = <<report>>
                /\ returned_at = "approved"
           ELSE /\ WriterCalls = 2
                /\ report = 2

C10_Witness ==
    /\ route.route = "comparative"
    /\ evaluation.is_acceptable
    /\ returned_at = "approved"
    /\ WriterCalls = 1
    /\ delivered = <<1>>
    /\ pc = "done"

\* C11: the draft of attempt MAX_REVISION_ATTEMPTS is never given to the
\* Evaluator: once the Writer has been invoked MAX_REVISION_ATTEMPTS times, only
\* earlier drafts have been evaluated, and if that last Writer call succeeded
\* its draft is the one returned, at the return that follows the skipped
\* evaluation, whatever the last verdict was.
C11_LastDraftNeverEvaluated ==
    /\ \A k \in 1..EvaluatorCalls : evaluator_inputs[k] < MAX_REVISION_ATTEMPTS
    /\ (WriterCalls = MAX_REVISION_ATTEMPTS /\ failure # "writer_agent") =>
          /\ report = MAX_REVISION_ATTEMPTS
          /\ returned_at = "complete"
          /\ EvaluatorCalls = MAX_REVISION_ATTEMPTS - 1

C11_Witness ==
    /\ pc = "done"
    /\ report = MAX_REVISION_ATTEMPTS
    /\ EvaluatorCalls = MAX_REVISION_ATTEMPTS - 1
    /\ ~evaluation.is_acceptable
    /\ emitted_report = MAX_REVISION_ATTEMPTS

\* C12: when the classifier, the planner, a Writer call, the Evaluator or the
\* delivery raises, run() is left at once: no capability of a later stage has
\* been or is ever invoked (the Writer is not retried, no draft is returned
\* after an Evaluator failure), the last message emitted is the one that
\* preceded the failing call, and the report's markdown is never emitted.
CapabilityFailures ==
    {"router_agent", "planner_agent", "writer_agent", "evaluator_agent", "email_agent"}

LastEmitted == IF emitted = <<>> THEN "" ELSE emitted[Len(emitted)]

C12_FailurePropagates ==
    failure \in CapabilityFailures =>
        /\ pc = "failed"
        /\ ~HasEmitted("markdown_report") /\ emitted_report = NoDraft
        /\ failure = "router_agent" =>
              /\ LastEmitted = "Analyzing query type"
              /\ planner_request = <<>> /\ tasks = <<>> /\ WriterCalls = 0
              /\ EvaluatorCalls = 0 /\ delivered = <<>>
        /\ failure = "planner_agent" =>
              /\ LastEmitted = "Route"
              /\ Len(planner_request) = 1 /\ tasks = <<>> /\ WriterCalls = 0
              /\ EvaluatorCalls = 0 /\ delivered = <<>>
        /\ failure = "writer_agent" =>
              /\ LastEmitted = "Searches complete"
              /\ WriterCalls = attempt /\ EvaluatorCalls = WriterCalls - 1
              /\ returned_at = "none" /\ delivered = <<>>
        /\ failure = "evaluator_agent" =>
              /\ LastEmitted = "Searches complete"
              /\ WriterCalls = attempt /\ EvaluatorCalls = WriterCalls
              /\ returned_at = "none" /\ delivered = <<>>
        /\ failure = "email_agent" =>
              /\ LastEmitted = "Report finalized"
              /\ Len(delivered) = 1

C12_Witness ==
    /\ failure = "evaluator_agent"
    /\ pc = "failed"
    /\ report = 1
    /\ delivered = <<>>

\* C14: the progress stream only grows and is ordered by stage: the trace
\* message, the routing announcement and the route, 'Searches planned',
\* 'Searches complete', 'Report finalized', 'Email sent' and the markdown last;
\* each capability is first called only after the message that ends the stage
\* before it: router, planner, searches, writer and evaluator, delivery.
IsPrefix(s, t) == Len(s) <= Len(t) /\ s = SubSeq(t, 1, Len(s))

StreamOf(announcement) ==
    <<"View trace", announcement, "Route", "Searches planned", "Searches complete",
      "Report finalized", "Email sent", "markdown_report">>

C14_StagesInOrder ==
    /\ \/ IsPrefix(emitted, StreamOf("Using manual route"))
       \/ IsPrefix(emitted, StreamOf("Analyzing query type"))
    /\ classifier_calls > 0 => HasEmitted("Analyzing query type")
    /\ planner_request # <<>> => HasEmitted("Route") /\ Len(planner_request) = 1
    /\ tasks # <<>> => HasEmitted("Searches planned")
    /\ WriterCalls > 0 => HasEmitted("Searches complete")
    /\ EvaluatorCalls > 0 => WriterCalls > 0
    /\ delivered # <<>> => HasEmitted("Report finalized") /\ Len(delivered) = 1
    /\ HasEmitted("Email sent") => delivered # <<>>
    /\ HasEmitted("Route") =>
          (classifier_calls = 1 \/ UsesManualRoute(route_override))
    /\ HasEmitted("Searches complete") => Len(tasks) = Len(search_plan)
    /\ HasEmitted("Report finalized") => WriterCalls > 0

C14_ProgressStreamOrdered ==
    [](C14_StagesInOrder) /\ [][IsPrefix(emitted, emitted')]_vars

C14_Witness ==
    /\ pc = "done"
    /\ emitted = StreamOf("Analyzing query type")
    /\ EvaluatorCalls = 1

\* C15: a run in which no capability call has raised is never aborted, and when
\* it can take no further step it has emitted the report's markdown as its last
\* message, after at most MAX_REVISION_ATTEMPTS attempts.
C15_RunEndsWithReport ==
    (failure \notin CapabilityFailures /\ ~ENABLED Next) =>
        /\ pc = "done"
        /\ LastEmitted = "markdown_report"
        /\ attempt <= MAX_REVISION_ATTEMPTS

\* C19: a run whose route is not quick is finalized either with a draft the
\* Evaluator approved or after 2 revisions of the initial report.
C19_TwoRevisionsAllowed ==
    (route.route \in Routes \ {"quick"} /\ returned_at \notin {"none", "approved"}) =>
        WriterCalls - 1 = 2

\* C20: perform_searches returns the results of the units that succeeded in
\* the order in which those units completed, whatever their order in the plan.
ResultsOf(units) == [k \in 1..Len(units) |-> search_plan[units[k]]]

C20_ResultsInCompletionOrder ==
    /\ pc = "searching" => IsPrefix(results, ResultsOf(completed_ok))
    /\ HasEmitted("Searches complete") => search_results = ResultsOf(completed_ok)

C20_Witness ==
    /\ HasEmitted("Searches complete")
    /\ Len(search_plan) = 3
    /\ search_raised = {1}
    /\ search_results = <<3, 2>>

\* C16: every invalid call on the Account raises ValueError and leaves balance,
\* holdings, initial_deposit and the transaction list as they were: a deposit
\* of an amount <= 0, a withdrawal of an amount <= 0 or above the balance, a
\* purchase whose cost exceeds the balance, a sale of more shares of a symbol
\* than are held.
InvalidCall(c) ==
    \/ c.op = "deposit_funds" /\ c.number <= 0
    \/ c.op = "withdraw_funds" /\ (c.number <= 0 \/ c.number > balance)
    \/ /\ c.op = "record_transaction"
       /\ c.number > 0
       /\ get_share_price(c.symbol) * c.number > balance
    \/ /\ c.op = "record_transaction"
       /\ c.number < 0
       /\ 0 - c.number > holdings_get(holdings, c.symbol)

C17_BalanceAndHoldingsNotNegative ==
    /\ balance >= 0
    /\ \A s \in DOMAIN holdings : holdings[s] >= 0

C17_Witness ==
    /\ balance = 0
    /\ "AAPL" \in DOMAIN holdings /\ holdings["AAPL"] = 0
    /\ Len(transactions) = MaxTransactions
    /\ last_call.op = "withdraw_funds" /\ last_call.raised = "ValueError"

\* C18: the transaction list gains exactly one entry per successful deposit,
\* withdrawal, purchase or sale, appended after the earlier entries:
\* ("DEPOSIT", amount), ("WITHDRAW", amount), ("BUY" or "SELL", symbol,
\* quantity, price); a rejected call adds none, the entries already in the list
\* are never changed or removed, and list_transactions returns the list.
EntryOf(c) ==
    CASE c.op = "deposit_funds" -> <<"DEPOSIT", c.number>>
      [] c.op = "withdraw_funds" -> <<"WITHDRAW", c.number>>
      [] c.op = "record_transaction" ->
             <<IF c.number > 0 THEN "BUY" ELSE "SELL", c.symbol, c.number,
               get_share_price(c.symbol)>>
      [] OTHER -> <<>>

C18_OneEntryPerSuccessfulCall ==
    [][LET c == last_call'
       IN  IF c.raised # NoneValue
           THEN transactions' = transactions
           ELSE IF c.op = "list_transactions"
                THEN transactions' = transactions /\ c.returned = transactions
                ELSE transactions' = Append(transactions, EntryOf(c))]_vars

C18_Witness ==
    /\ last_call.op = "list_transactions"
    /\ last_call.returned =
           <<<<"DEPOSIT", 150>>, <<"BUY", "AAPL", 1, 150>>, <<"SELL", "AAPL", 0 - 1, 150>>>>

\* C13: with the handlers dispatched one at a time, the Q&A history never holds
\* more than MAX_QUESTIONS rounds, and submitting the answer to the
\* MAX_QUESTIONS-th question starts the research workflow on the query enriched
\* with the recorded rounds, whether or not the answers are blank.
C13_HistoryBoundedAndResearchStarts ==
    /\ [](Len(qa_history_state) <= MAX_QUESTIONS)
    /\ [][(HandleAnswer /\ Len(qa_history_state) >= MAX_QUESTIONS) =>
             /\ ui_pc' = "running"
             /\ Len(qa_history_state') = MAX_QUESTIONS
             /\ research_run'.query = enrich_query(query_state, qa_history_state')
             /\ research_run'.route_override = RouteOverrideOf(route_mode_state)]_vars

C13_Witness ==
    /\ ui_pc = "running"
    /\ Len(qa_history_state) = MAX_QUESTIONS
    /\ \A k \in 1..MAX_QUESTIONS : qa_history_state[k][2] = <<>>
    /\ research_run.query = <<"q">>

\* C21: the plan run() searches is the planning capability's output as it is,
\* whatever count was requested, and perform_searches creates one task per item
\* of that plan; the search capability is called at most once per task, and
\* exactly once for every item by the time the stage ends.
C21_PlanUntouchedOneSearchPerItem ==
    /\ HasEmitted("Searches planned") => search_plan = planner_output
    /\ (pc = "searching" \/ HasEmitted("Searches complete")) =>
          /\ DOMAIN tasks = DOMAIN search_plan
          /\ \A i \in DOMAIN search_plan :
                /\ search_calls[i] <= 1
                /\ search_calls[i] = 1 <=> tasks[i] # "pending"
    /\ HasEmitted("Searches complete") =>
          \A i \in DOMAIN search_plan : search_calls[i] = 1

C21_Witness ==
    /\ pc = "done"
    /\ planner_request = <<1>>
    /\ Len(search_plan) = MaxPlanLen
    /\ \A i \in DOMAIN search_plan : search_calls[i] = 1

\* C22: without a manual override the count requested from the planning
\* capability is the num_searches the classifier returned, whatever integer it
\* is and whatever label came with it; the counts of route_map are requested
\* only for a manual override, and then the classifier is not called.
C22_AutoRequestsClassifierCount ==
    planner_request # <<>> =>
        IF UsesManualRoute(route_override)
        THEN /\ planner_request = <<route_map_get(route_override)>>
             /\ classifier_calls = 0
        ELSE /\ planner_request = <<classifier_output.num_searches>>
             /\ classifier_calls = 1
             /\ route = classifier_output

C22_Witness ==
    /\ ~UsesManualRoute(route_override)
    /\ classifier_output.route = "comparative"
    /\ classifier_output.num_searches = 0 - 1
    /\ planner_request = <<0 - 1>>
    /\ HasEmitted("Searches planned")

\* C23 (amended): in the search stage every consumed completion, of a unit that
\* succeeded or failed, adds exactly one to the counter and the new value is
\* printed ("Searching... k/n completed"); nothing is emitted on the progress
\* stream during the stage; when the stage ends the counter equals the number
\* of planned items.
CounterValues(n, total) == [k \in 1..n |-> <<k, total>>]

C23_StageCounter ==
    /\ (pc = "searching" \/ HasEmitted("Searches complete")) =>
          printed = CounterValues(num_completed, Len(search_plan))
    /\ pc = "searching" => LastEmitted = "Searches planned"
    /\ HasEmitted("Searches complete") => num_completed = Len(search_plan)

C23_CounterPrintedNotEmitted ==
    /\ [](C23_StageCounter)
    /\ [][(pc = "searching" /\ Len(as_completed') < Len(as_completed)) =>
             /\ Len(as_completed') = Len(as_completed) - 1
             /\ num_completed' = num_completed + 1
             /\ printed' = Append(printed, <<num_completed', Len(search_plan)>>)
             /\ emitted' = emitted]_vars

C23_Witness ==
    /\ HasEmitted("Searches complete")
    /\ search_raised = {1}
    /\ printed = <<<<1, 2>>, <<2, 2>>>>

\* C23 as stated: every increment of the counter is reported on the progress
\* stream, which therefore grows in the step that counts a completion.
C23_CounterReportedOnStream ==
    [][(pc = "searching" /\ num_completed' = num_completed + 1) =>
          emitted' # emitted]_vars

\* C26: the delivery capability is called at most once, only after
\* write_report_with_evaluation has returned, and with the draft of the latest
\* Writer call; the markdown emitted last is that of the delivered draft.
C26_DeliversLatestDraftOnce ==
    /\ Len(delivered) <= 1
    /\ delivered # <<>> =>
          /\ returned_at # "none"
          /\ WriterCalls >= 1
          /\ delivered[1] = WriterCalls
    /\ pc \in {"send_email", "done"} => report = WriterCalls
    /\ pc = "done" => Len(delivered) = 1
    /\ HasEmitted("markdown_report") =>
          /\ delivered # <<>>
          /\ emitted_report = delivered[1]
          /\ LastEmitted = "markdown_report"

C26_Witness ==
    /\ pc = "done"
    /\ evaluator_inputs = <<1>>
    /\ delivered = <<MAX_REVISION_ATTEMPTS>>
    /\ emitted_report = MAX_REVISION_ATTEMPTS

\* C27: when every search unit of the plan fails, or the plan is empty, the
\* run is not aborted: perform_searches returns the empty list, every Writer
\* call receives the empty list, and a run in which no capability fails ends
\* with the report delivered and its markdown emitted.
NoSearchSucceeded == search_raised = DOMAIN search_plan

C27_NoResultsStillReports ==
    /\ failure # "search"
    /\ (pc = "searching" /\ NoSearchSucceeded /\ num_completed = Len(search_plan)) =>
          /\ results = <<>>
          /\ ENABLED PerformSearchesReturn
    /\ (HasEmitted("Searches complete") /\ NoSearchSucceeded) =>
          /\ search_results = <<>>
          /\ \A k \in 1..WriterCalls : writer_inputs[k].search_results = <<>>
          /\ pc = "write" => ENABLED WriteReport
          /\ pc \in {"evaluate", "send_email", "done"} => WriterCalls >= 1
          /\ (failure = "none" /\ ~ENABLED Next) =>
                /\ pc = "done"
                /\ delivered = <<report>>
                /\ emitted_report = report
                /\ LastEmitted = "markdown_report"

C27_Witness ==
    /\ pc = "done"
    /\ Len(search_plan) = 2
    /\ search_raised = {1, 2}
    /\ writer_inputs[1].search_results = <<>>
    /\ emitted_report = report

\* C30: the return after the while loop of write_report_with_evaluation is
\* never executed: a draft is returned either by the return that skips the
\* evaluation (quick route or last attempt) or by the return on approval.
C30_AfterLoopReturnUnreachable ==
    /\ returned_at \in {"none", "complete", "approved"}
    /\ (pc \in {"send_email", "done"} \/ delivered # <<>>) => returned_at # "none"
    /\ returned_at = "complete" =>
          (route.route = "quick" \/ attempt = MAX_REVISION_ATTEMPTS)
    /\ returned_at = "approved" =>
          (evaluation.is_acceptable /\ attempt < MAX_REVISION_ATTEMPTS)

C30_Witness ==
    /\ pc = "send_email"
    /\ route.route = "deep"
    /\ returned_at = "complete"
    /\ attempt = MAX_REVISION_ATTEMPTS
    /\ ~evaluation.is_acceptable

\* C29: on the Account, the balance plus the value of the holdings at the fixed
\* prices always equals the deposits made minus the withdrawals made, so that
\* calculate_profit_loss() is minus the total withdrawn: zero while nothing has
\* been withdrawn, and not changed by a purchase or a sale.
RECURSIVE TotalOf(_, _)
TotalOf(kind, log) ==
    IF log = <<>> THEN 0
    ELSE (IF Head(log)[1] = kind THEN Head(log)[2] ELSE 0) + TotalOf(kind, Tail(log))

ProfitLoss == calculate_profit_loss(holdings, balance, initial_deposit)

C29_LedgerBalances ==
    /\ [](/\ balance + calculate_portfolio_value(holdings) =
                TotalOf("DEPOSIT", transactions) - TotalOf("WITHDRAW", transactions)
          /\ initial_deposit = TotalOf("DEPOSIT", transactions)
          /\ ProfitLoss = 0 - TotalOf("WITHDRAW", transactions))
    /\ [][last_call'.op = "record_transaction" => ProfitLoss' = ProfitLoss]_vars

C29_Witness ==
    /\ transactions =
           <<<<"DEPOSIT", 700>>, <<"BUY", "AAPL", 1, 150>>, <<"WITHDRAW", 150>>>>
    /\ ProfitLoss = 0 - 150
    /\ balance = 400

\* C24: in the step in which handle_answer shows the next clarifying question
\* (the history grows by the new question), the answer box is cleared: its
\* value becomes the empty string.
C24_AnswerBoxCleared ==
    [][(ui_pc = "answer_await" /\ ui_pc' = "idle"
            /\ Len(qa_history_state') = Len(qa_history_state) + 1) =>
          answer_box' = <<>>]_vars

\* C25: with the handlers dispatched one at a time, generate_clarifying_question
\* is called by start_clarification with the empty history and by handle_answer
\* with the session's history, which then holds fewer than MAX_QUESTIONS rounds,
\* each with its answer already stored by handle_answer.
C25_ClarifierSeesAnsweredShortHistory ==
    /\ ui_pc = "start_await" => clarifier_input = <<>>
    /\ ui_pc = "answer_await" =>
          /\ clarifier_input = qa_history_state
          /\ Len(clarifier_input) >= 1
          /\ Len(clarifier_input) < MAX_QUESTIONS
          /\ answered = 1..Len(clarifier_input)
    /\ Len(clarifier_input) < MAX_QUESTIONS

C25_Witness ==
    /\ ui_pc = "answer_await"
    /\ Len(clarifier_input) = MAX_QUESTIONS - 1
    /\ clarifier_input[1][2] = <<"x">>
    /\ clarifier_input[2][2] = <<>>
    /\ answered = {1, 2}

\* C28: when a second handle_answer invocation is dispatched while the first is
\* awaiting the next question, the Q&A history still holds at most
\* MAX_QUESTIONS rounds and at most one question without a stored answer.
C28_OverlapKeepsHistoryBounded ==
    /\ Len(qa_history_state) <= MAX_QUESTIONS
    /\ Cardinality((1..Len(qa_history_state)) \ answered) <= 1
====
